---- MODULE Spec2Model ----
(***************************************************************************)
(* Model of src/CPP/hw.cpp: main() seeds the C library generator, fills a  *)
(* 10-element array with rand() % 100 + 1, prints every element as it is   *)
(* produced, accumulates the sum and prints it.                            *)
(*                                                                         *)
(* Standard output is modelled as the stream of characters written to it   *)
(* (one-character strings); integers are formatted to decimal digits as    *)
(* operator<<(int) does, so that what a reader of the output parses back   *)
(* is computed from the characters and not from the program's variables.   *)
(***************************************************************************)
EXTENDS Integers, Sequences, FiniteSets, TLC

VARIABLES pc, seeded, stub, i, numbers, sum, out, raws, access, ub, exitCode

vars == <<pc, seeded, stub, i, numbers, sum, out, raws, access, ub, exitCode>>

(***************************************************************************)
(* Program constants and bounds of the model.                              *)
(***************************************************************************)
\* const int SIZE = 10;
SIZE == 10

\* Largest value rand() returns (glibc: 2^31 - 1).
RAND_MAX == 2147483647

\* Largest value of the 32-bit signed int that holds sum.
INT_MAX == 2147483647

\* How many of the entries of RawSample rand() may return in Spec.
NumRaw == 2

\* How many deterministic stub generators SpecStub runs the program with.
NumStubs == 32

\* Raw values rand() may return in Spec: both ends of a residue class block,
\* the top of rand()'s range, and the first values past a multiple of 100.
RawSample == <<0, 99, RAND_MAX, 100, 199, 200>>

RawChoices == { RawSample[j] : j \in 1..(IF NumRaw < Len(RawSample) THEN NumRaw ELSE Len(RawSample)) }

\* The raw sequence of the stubbed generator of the concrete scenario.
Scenario == <<5, 99, 0, 3, 50, 7, 88, 12, 200, 1>>

\* The raw value the stub generator s returns after n earlier calls (every
\* stub has period SIZE): stub 1 is the scenario, stub 2 walks down from
\* RAND_MAX, stub s >= 3 sweeps the block of SIZE consecutive raw values
\* starting at (s - 3) * SIZE.
StubRaw(s, n) ==
    LET j == (n % SIZE) + 1 IN
    IF s = 1 THEN Scenario[j]
    ELSE IF s = 2 THEN RAND_MAX - (j - 1)
    ELSE (s - 3) * SIZE + (j - 1)

(***************************************************************************)
(* Output stream: text written by operator<<.                              *)
(***************************************************************************)
\* "The random array elements are: "
Label1 ==
    << "T", "h", "e", " ", "r", "a", "n", "d", "o", "m", " ", "a",
       "r", "r", "a", "y", " ", "e", "l", "e", "m", "e", "n", "t",
       "s", " ", "a", "r", "e", ":", " " >>

\* "The sum of the array elements is: "
Label2 ==
    << "T", "h", "e", " ", "s", "u", "m", " ", "o", "f", " ", "t",
       "h", "e", " ", "a", "r", "r", "a", "y", " ", "e", "l", "e",
       "m", "e", "n", "t", "s", " ", "i", "s", ":", " " >>

\* std::endl writes a line break (and flushes).
Endl == << "\n" >>

\* The separator written after every element.
Space == << " " >>

DigitChar == << "0", "1", "2", "3", "4", "5", "6", "7", "8", "9" >>

RECURSIVE Digits(_)
Digits(n) ==
    IF n < 10 THEN << DigitChar[n + 1] >>
    ELSE Digits(n \div 10) \o << DigitChar[(n % 10) + 1] >>

\* operator<<(int): decimal digits, with a leading '-' for a negative value.
FormatInt(n) == IF n < 0 THEN << "-" >> \o Digits(0 - n) ELSE Digits(n)

(***************************************************************************)
(* Pure parts of the statements of main.                                   *)
(***************************************************************************)
\* Mutation of MapRaw: the offset is forgotten.
MapRawNoOffset(raw) == raw % 100

\* Mutation of MapRaw: the modulus is one too large.
MapRawModulus(raw) == (raw % 101) + 1

\* rand() % 100 + 1
MapRaw(raw) == (raw % 100) + 1

\* Mutation of LoopTest: the loop runs once more.
LoopTestInclusive(v) == IF v <= SIZE THEN "L16" ELSE "L20"

\* i < SIZE: the loop body, or the statement after the loop.
LoopTest(v) == IF v < SIZE THEN "L16" ELSE "L20"

\* Mutation of ForStep: every other slot is skipped.
ForStepTwo(v) == v + 2

\* ++i
ForStep(v) == v + 1

\* Mutation of Accumulate: the sum is assigned instead of added to.
AccumulateOverwrite(s, v) == v

\* sum += numbers[i]
Accumulate(s, v) == s + v

\* Whether s + v leaves the range of int (v >= 0 in every use).
Overflows(s, v) == v > 0 /\ s > INT_MAX - v

\* s + v - 2^32, computed within 32 bits.
Wrap32(s, v) == (s - INT_MAX - 1) + (v - INT_MAX - 1)

(***************************************************************************)
(* The array int numbers[SIZE].                                            *)
(***************************************************************************)
InBounds(idx) == idx \in 0..(SIZE - 1)

Written(idx) == \E k \in 1..Len(access) : access[k].op = "w" /\ access[k].idx = idx

\* What an indeterminate or out-of-bounds read may yield.
Garbage == {0 - 1, 0, 101}

\* The values a read of numbers[idx] may yield.
ReadSlot(idx) == IF InBounds(idx) /\ Written(idx) THEN {numbers[idx]} ELSE Garbage

\* The undefined behaviour a read of numbers[idx] is.
ReadUB(idx) ==
    IF ~InBounds(idx) THEN {"oob"} ELSE IF ~Written(idx) THEN {"uninit"} ELSE {}

(***************************************************************************)
(* Initial state: the process has started, main has executed nothing.      *)
(* numbers and sum have no storage yet; 0 stands for them until line 9-11. *)
(***************************************************************************)
InitCommon ==
    /\ pc = "L7"
    /\ seeded = 0
    /\ i = 0
    /\ numbers = [k \in 0..(SIZE - 1) |-> 0]
    /\ sum = 0
    /\ out = << >>
    /\ raws = << >>
    /\ access = << >>
    /\ ub = {}
    /\ exitCode = << >>

\* rand() is the library's generator: any value of RawChoices.
Init == InitCommon /\ stub = 0

\* rand() is replaced by one of the deterministic stub generators.
InitStub == InitCommon /\ stub \in 1..NumStubs

(***************************************************************************)
(* The statements of main.                                                 *)
(***************************************************************************)
\* Mutation of Line7: the generator is never seeded.
Line7NoSeed ==
    /\ pc = "L7"
    /\ pc' = "L9"
    /\ UNCHANGED <<seeded, stub, i, numbers, sum, out, raws, access, ub, exitCode>>

\* srand(time(0));
Line7 ==
    /\ pc = "L7"
    /\ seeded' = seeded + 1
    /\ pc' = "L9"
    /\ UNCHANGED <<stub, i, numbers, sum, out, raws, access, ub, exitCode>>

\* Mutation of Line9_11: sum is declared without an initialiser.
Line9_11Uninit ==
    /\ pc = "L9"
    /\ sum' \in Garbage
    /\ ub' = ub \cup {"uninit"}
    /\ pc' = "L14"
    /\ UNCHANGED <<seeded, stub, i, numbers, out, raws, access, exitCode>>

\* const int SIZE = 10; int numbers[SIZE]; int sum = 0;
Line9_11 ==
    /\ pc = "L9"
    /\ sum' = 0
    /\ pc' = "L14"
    /\ UNCHANGED <<seeded, stub, i, numbers, out, raws, access, ub, exitCode>>

\* Mutation of Line14: the label is not followed by std::endl.
Line14NoEndl ==
    /\ pc = "L14"
    /\ out' = out \o Label1
    /\ pc' = "L15"
    /\ UNCHANGED <<seeded, stub, i, numbers, sum, raws, access, ub, exitCode>>

\* std::cout << "The random array elements are: " << std::endl;
Line14 ==
    /\ pc = "L14"
    /\ out' = out \o Label1 \o Endl
    /\ pc' = "L15"
    /\ UNCHANGED <<seeded, stub, i, numbers, sum, raws, access, ub, exitCode>>

\* for (int i = 0; i < SIZE; ...
Line15Init ==
    /\ pc = "L15"
    /\ i' = 0
    /\ pc' = LoopTest(0)
    /\ UNCHANGED <<seeded, stub, numbers, sum, out, raws, access, ub, exitCode>>

\* numbers[i] = rand() % 100 + 1; with raw the value rand() returned.
Line16(raw) ==
    /\ pc = "L16"
    /\ raws' = Append(raws, raw)
    /\ access' = Append(access, [op |-> "w", idx |-> i])
    /\ IF InBounds(i)
       THEN /\ numbers' = [numbers EXCEPT ![i] = MapRaw(raw)]
            /\ UNCHANGED <<sum, ub>>
       ELSE \* a store past the end of the array: it may hit nothing that is
            \* read again, or the neighbouring local
            /\ ub' = ub \cup {"oob"}
            /\ UNCHANGED numbers
            /\ sum' \in {sum, MapRaw(raw)}
    /\ pc' = "L17"
    /\ UNCHANGED <<seeded, stub, i, out, exitCode>>

\* Line 16 with the library's generator.
Fill == stub = 0 /\ \E raw \in RawChoices : Line16(raw)

\* Line 16 with a stub generator: its next value.
FillStub == stub > 0 /\ Line16(StubRaw(stub, Len(raws)))

\* Mutation of Line17: the element is not written.
Line17Skip ==
    /\ pc = "L17"
    /\ pc' = "L18"
    /\ UNCHANGED <<seeded, stub, i, numbers, sum, out, raws, access, ub, exitCode>>

\* std::cout << numbers[i] << " ";
Line17 ==
    /\ pc = "L17"
    /\ \E v \in ReadSlot(i) : out' = out \o FormatInt(v) \o Space
    /\ access' = Append(access, [op |-> "r", idx |-> i])
    /\ ub' = ub \cup ReadUB(i)
    /\ pc' = "L18"
    /\ UNCHANGED <<seeded, stub, i, numbers, sum, raws, exitCode>>

\* sum += numbers[i];
Line18 ==
    /\ pc = "L18"
    /\ \E v \in ReadSlot(i) :
          IF Overflows(sum, v)
          THEN sum' \in {Wrap32(sum, v), 0} /\ ub' = ub \cup ReadUB(i) \cup {"overflow"}
          ELSE sum' = Accumulate(sum, v) /\ ub' = ub \cup ReadUB(i)
    /\ access' = Append(access, [op |-> "r", idx |-> i])
    /\ pc' = "L15inc"
    /\ UNCHANGED <<seeded, stub, i, numbers, out, raws, exitCode>>

\* ... ++i) followed by the test i < SIZE
Line15Inc ==
    /\ pc = "L15inc"
    /\ i' = ForStep(i)
    /\ pc' = LoopTest(ForStep(i))
    /\ UNCHANGED <<seeded, stub, numbers, sum, out, raws, access, ub, exitCode>>

\* Mutation of Line20: the line of elements is not ended.
Line20NoEndl ==
    /\ pc = "L20"
    /\ pc' = "L23"
    /\ UNCHANGED <<seeded, stub, i, numbers, sum, out, raws, access, ub, exitCode>>

\* std::cout << std::endl;
Line20 ==
    /\ pc = "L20"
    /\ out' = out \o Endl
    /\ pc' = "L23"
    /\ UNCHANGED <<seeded, stub, i, numbers, sum, raws, access, ub, exitCode>>

\* std::cout << "The sum of the array elements is: " << sum << std::endl;
Line23 ==
    /\ pc = "L23"
    /\ out' = out \o Label2 \o FormatInt(sum) \o Endl
    /\ pc' = "L25"
    /\ UNCHANGED <<seeded, stub, i, numbers, sum, raws, access, ub, exitCode>>

\* return 0;
Line25 ==
    /\ pc = "L25"
    /\ exitCode' = << 0 >>
    /\ pc' = "done"
    /\ UNCHANGED <<seeded, stub, i, numbers, sum, out, raws, access, ub>>

\* The statements that do not call rand().
Straight ==
    \/ Line7
    \/ Line9_11
    \/ Line14
    \/ Line15Init
    \/ Line17
    \/ Line18
    \/ Line15Inc
    \/ Line20
    \/ Line23
    \/ Line25

Next == Straight \/ Fill

NextStub == Straight \/ FillStub

\* main with the library's generator.
Spec == Init /\ [][Next]_vars

\* main with a deterministic stub generator.
SpecStub == InitStub /\ [][NextStub]_vars

\* main is the only thread of the process: it always takes its next step.
FairSpec == Init /\ [][Next]_vars /\ WF_vars(Next)

(***************************************************************************)
(* What a reader of standard output sees: lines, whitespace-separated      *)
(* tokens, and the integers the tokens parse to.                           *)
(***************************************************************************)
\* The segments of s between occurrences of sep (the last one is what follows
\* the last sep).
RECURSIVE Split(_, _)
Split(s, sep) ==
    LET pos == { k \in 1..Len(s) : s[k] = sep } IN
    IF pos = {} THEN << s >>
    ELSE LET p == CHOOSE q \in pos : \A r \in pos : q <= r
         IN  << SubSeq(s, 1, p - 1) >> \o Split(SubSeq(s, p + 1, Len(s)), sep)

\* The lines of s that a line break ends.
LinesOf(s) == LET seg == Split(s, "\n") IN SubSeq(seg, 1, Len(seg) - 1)

\* What follows the last line break of s.
Unended(s) == LET seg == Split(s, "\n") IN seg[Len(seg)]

NonEmpty(t) == t # << >>

\* The tokens of s that spaces and line breaks separate.
Tokens(s) ==
    SelectSeq(Split([k \in 1..Len(s) |-> IF s[k] = "\n" THEN " " ELSE s[k]], " "), NonEmpty)

IsDigit(c) == \E d \in 1..Len(DigitChar) : DigitChar[d] = c

DigitValue(c) == (CHOOSE d \in 1..Len(DigitChar) : DigitChar[d] = c) - 1

Unsigned(t) == IF t # << >> /\ t[1] = "-" THEN Tail(t) ELSE t

\* Whether the token reads as a decimal integer (of at most nine digits).
IsIntToken(t) ==
    LET u == Unsigned(t) IN Len(u) \in 1..9 /\ \A k \in 1..Len(u) : IsDigit(u[k])

RECURSIVE ParseDigits(_)
ParseDigits(t) ==
    IF t = << >> THEN 0
    ELSE ParseDigits(SubSeq(t, 1, Len(t) - 1)) * 10 + DigitValue(t[Len(t)])

ParseInt(t) == IF t[1] = "-" THEN 0 - ParseDigits(Tail(t)) ELSE ParseDigits(t)

\* The integers among the tokens of s, in order.
IntsOf(s) ==
    LET toks == SelectSeq(Tokens(s), IsIntToken)
    IN  [k \in 1..Len(toks) |-> ParseInt(toks[k])]

StartsWith(s, prefix) == Len(s) >= Len(prefix) /\ SubSeq(s, 1, Len(prefix)) = prefix

\* The positions of out at which the sum label starts.
SumLabelPos ==
    { p \in 1..(Len(out) - Len(Label2) + 1) :
          out[p] = Label2[1] /\ SubSeq(out, p, p + Len(Label2) - 1) = Label2 }

SumLabelWritten == SumLabelPos # {}

FirstSumLabel == LET pos == SumLabelPos IN CHOOSE p \in pos : \A q \in pos : p <= q

\* The output before the sum label, and from the end of the sum label on.
BeforeSumLabel == IF SumLabelWritten THEN SubSeq(out, 1, FirstSumLabel - 1) ELSE out
AfterSumLabel ==
    IF SumLabelWritten THEN SubSeq(out, FirstSumLabel + Len(Label2), Len(out)) ELSE << >>

\* The numbers displayed so far, and the sums displayed.
ShownNumbers == IntsOf(BeforeSumLabel)
ShownSums == IntsOf(AfterSumLabel)

RECURSIVE SeqSum(_)
SeqSum(s) == IF s = << >> THEN 0 ELSE s[1] + SeqSum(Tail(s))

\* numbers[0..k-1] as a sequence.
Slots(k) == [j \in 1..k |-> numbers[j - 1]]

\* How many times the loop body has added to sum.
Added ==
    IF pc \in {"L7", "L9", "L14", "L15"} THEN 0
    ELSE IF pc \in {"L16", "L17", "L18"} THEN i
    ELSE IF pc = "L15inc" THEN i + 1
    ELSE SIZE

SumLineDone == pc \in {"L25", "done"}

(***************************************************************************)
(* Claims.                                                                 *)
(***************************************************************************)

\* C1: once the sum line is written, exactly SIZE numbers have been displayed
\* before it and the one sum displayed is their arithmetic sum.
C1_SumOfDisplayed ==
    SumLineDone =>
        LET shown == ShownNumbers
            sums == ShownSums
        IN  /\ Len(shown) = SIZE
            /\ Len(sums) = 1
            /\ sums[1] = SeqSum(shown)

\* A finished run that displayed five 1s and five 100s, and 505.
C1_Witness ==
    /\ pc = "done"
    /\ ShownSums = << 505 >>
    /\ Len(ShownNumbers) = SIZE

\* C2: every value stored in numbers[] and every value displayed lies in
\* 1..100, whatever raw values rand() returned.
C2_ValueRange ==
    /\ \A k \in 0..(SIZE - 1) : Written(k) => numbers[k] \in 1..100
    /\ LET shown == ShownNumbers IN \A k \in 1..Len(shown) : shown[k] \in 1..100

\* A finished run on raw values from RAND_MAX down: 2147483647 gives 48 and
\* 2147483638 gives 39.
C2_Witness ==
    /\ pc = "done"
    /\ raws[1] = RAND_MAX
    /\ numbers[0] = 48
    /\ ShownNumbers[1] = 48
    /\ ShownNumbers[SIZE] = 39

\* C3 as stated: the first line of a finished run's output is the label
\* followed, on the same line, by exactly 10 tokens that are integers of 1..100.
C3_Original ==
    pc = "done" =>
        LET first == LinesOf(out)[1] IN
        /\ StartsWith(first, Label1)
        /\ LET toks == Tokens(SubSeq(first, Len(Label1) + 1, Len(first))) IN
           /\ Len(toks) = SIZE
           /\ \A k \in 1..Len(toks) : IsIntToken(toks[k]) /\ ParseInt(toks[k]) \in 1..100

\* C3 amended: the first line of a finished run's output is the label alone,
\* and the second line holds exactly 10 whitespace-separated tokens, each an
\* integer of 1..100.
C3_ElementsLine ==
    pc = "done" =>
        /\ Len(LinesOf(out)) >= 2
        /\ LinesOf(out)[1] = Label1
        /\ LET toks == Tokens(LinesOf(out)[2]) IN
           /\ Len(toks) = SIZE
           /\ \A k \in 1..Len(toks) : IsIntToken(toks[k]) /\ ParseInt(toks[k]) \in 1..100

\* A finished run of the scenario: its second line reads 6 100 1 4 51 8 89 13 1 2.
C3_Witness ==
    /\ pc = "done"
    /\ stub = 1
    /\ LinesOf(out)[1] = Label1
    /\ IntsOf(LinesOf(out)[2]) = << 6, 100, 1, 4, 51, 8, 89, 13, 1, 2 >>

\* C4 as stated: a finished run's output is exactly two lines, the second
\* being the sum label and the sum; one line break precedes the sum label.
C4_Original ==
    pc = "done" =>
        /\ Len(LinesOf(out)) = 2
        /\ Unended(out) = << >>
        /\ LinesOf(out)[2] = Label2 \o FormatInt(sum)
        /\ Len(LinesOf(BeforeSumLabel)) = 1

\* C4 amended: a finished run's output is exactly three lines, the third
\* being the sum label and the sum; two line breaks precede the sum label.
C4_SumLine ==
    pc = "done" =>
        /\ Len(LinesOf(out)) = 3
        /\ Unended(out) = << >>
        /\ StartsWith(LinesOf(out)[3], Label2)
        /\ IntsOf(LinesOf(out)[3]) = << sum >>
        /\ Len(Tokens(LinesOf(out)[3])) = Len(Tokens(Label2)) + 1
        /\ Len(LinesOf(BeforeSumLabel)) = 2
        /\ Unended(BeforeSumLabel) = << >>

\* A finished run whose third line is the label and 1000.
C4_Witness ==
    /\ pc = "done"
    /\ Len(LinesOf(out)) = 3
    /\ LinesOf(out)[3] = Label2 \o << "1", "0", "0", "0" >>

\* C5: the k-th number displayed is (r[k] mod 100) + 1 for the k-th raw value
\* r[k] drawn, in order; the sum displayed is their total; the scenario's raw
\* values display 6 100 1 4 51 8 89 13 1 2 and the sum 275.
C5_Mapping ==
    /\ LET shown == ShownNumbers IN
       /\ Len(shown) <= Len(raws)
       /\ \A k \in 1..Len(shown) : shown[k] = (raws[k] % 100) + 1
    /\ SumLineDone =>
          /\ Len(ShownNumbers) = SIZE
          /\ ShownSums = << SeqSum([k \in 1..SIZE |-> (raws[k] % 100) + 1]) >>
    /\ (SumLineDone /\ raws = Scenario) =>
          /\ ShownNumbers = << 6, 100, 1, 4, 51, 8, 89, 13, 1, 2 >>
          /\ ShownSums = << 275 >>

\* A finished run on the scenario's raw values, displaying 275.
C5_Witness ==
    /\ pc = "done"
    /\ raws = << 5, 99, 0, 3, 50, 7, 88, 12, 200, 1 >>
    /\ ShownSums = << 275 >>

\* What main has done when it has returned.
Returned ==
    /\ pc = "done"
    /\ Len(raws) = SIZE
    /\ SumLabelWritten
    /\ Len(ShownSums) = 1
    /\ exitCode = << 0 >>

\* C6: every run reaches the return with exactly SIZE values drawn, the sum
\* line written and exit code 0; no more than SIZE values are ever drawn, and
\* the program never stops anywhere else.
C6_Terminates ==
    /\ <>Returned
    /\ [](Len(raws) <= SIZE)
    /\ [](pc # "done" => ENABLED Next)
    /\ [](pc = "done" => Returned)

\* A run that has returned after ten draws.
C6_Witness ==
    /\ Returned
    /\ i = SIZE
    /\ Len(access) = 3 * SIZE

\* C7: at the end of iteration k exactly k values have been drawn, exactly
\* those k values have been displayed in order, and sum is their total; the
\* same holds whenever the next raw value is about to be drawn.
C7_Interleaved ==
    /\ pc = "L15inc" =>
          /\ Len(raws) = i + 1
          /\ ShownNumbers = Slots(i + 1)
          /\ sum = SeqSum(Slots(i + 1))
    /\ pc = "L16" =>
          /\ Len(raws) = i
          /\ ShownNumbers = Slots(i)
          /\ sum = SeqSum(Slots(i))
    /\ pc = "L18" =>
          /\ Len(raws) = i + 1
          /\ ShownNumbers = Slots(i + 1)
          /\ sum = SeqSum(Slots(i))

\* The fifth value is about to be drawn; four are displayed and summed.
C7_Witness ==
    /\ pc = "L16"
    /\ i = 4
    /\ ShownNumbers = << 1, 100, 100, 1 >>
    /\ sum = 202

\* C8: the generator is seeded exactly once, before any value is drawn and
\* before anything is written; the sum label is written only after all SIZE
\* values have been drawn and displayed; sum does not change once written.
C8_Order ==
    /\ [](seeded <= 1)
    /\ []((Len(raws) > 0 \/ out # << >> \/ pc = "done") => seeded = 1)
    /\ [](SumLabelWritten => (Len(raws) = SIZE /\ Len(ShownNumbers) = SIZE))
    /\ [][SumLabelWritten => sum' = sum]_vars

\* Seeded, nothing drawn or written yet.
C8_Witness ==
    /\ seeded = 1
    /\ pc = "L14"
    /\ out = << >>
    /\ raws = << >>

\* The accesses the first n iterations make: a store to slot j, then two
\* reads of slot j, for j = 0, 1, ...
InOrder(n) ==
    [k \in 1..n |-> [op |-> IF k % 3 = 1 THEN "w" ELSE "r", idx |-> (k - 1) \div 3]]

\* C9: every access to numbers[] is within 0..SIZE-1; the slots are written
\* once each in increasing order; a slot is read only after it was written in
\* the same iteration; after the loop every slot has been written.
C9_ArrayAccess ==
    /\ ub \cap {"oob", "uninit"} = {}
    /\ \A k \in 1..Len(access) : InBounds(access[k].idx)
    /\ access = InOrder(Len(access))
    /\ pc \in {"L20", "L23", "L25", "done"} =>
          /\ Len(access) = 3 * SIZE
          /\ \A k \in 0..(SIZE - 1) : Written(k)

\* The loop has ended with all ten slots written and read.
C9_Witness ==
    /\ pc = "L20"
    /\ i = SIZE
    /\ \A k \in 0..(SIZE - 1) : Written(k)
    /\ access[3 * SIZE] = [op |-> "r", idx |-> SIZE - 1]

\* C10: after k additions k <= sum <= 100 * k; no addition overflows; the
\* sum displayed lies in 10..1000.
C10_SumRange ==
    /\ "overflow" \notin ub
    /\ Added <= sum
    /\ sum <= 100 * Added
    /\ sum <= INT_MAX
    /\ SumLineDone => LET sums == ShownSums IN Len(sums) = 1 /\ sums[1] \in 10..1000

\* A finished run that displays the largest sum.
C10_Witness ==
    /\ pc = "done"
    /\ sum = 1000
    /\ ShownSums = << 1000 >>
    /\ Added = SIZE

====
